---- MODULE Spec2Model ----
(***************************************************************************)
(* Model of two parts of vulkano:                                          *)
(*   descriptor/descriptor_set/collection.rs  DescriptorSetsCollection for *)
(*       (), for a single DescriptorSet and for tuples (macro              *)
(*       impl_collection!);                                                *)
(*   pipeline/vertex/two.rs  TwoBuffersDefinition: VertexDefinition::      *)
(*       definition and VertexSource<(Bt, Bu)>::decode.                    *)
(* Rust indices are 0-based, TLA+ sequences 1-based: element i of a tuple  *)
(* t is t[i + 1].                                                          *)
(***************************************************************************)
EXTENDS Integers, Sequences, FiniteSets, TLC

VARIABLES
    \* ---- collection.rs ----
    coll,             \* the collection value `self`: <<>> is (), <<s>> a single set, longer a tuple
    moved,            \* TRUE once into_vec(self) has consumed the value
    overflow_checks,  \* build flag: TRUE panics on integer overflow, FALSE wraps
    call,             \* the last trait method called, with its arguments
    ret,              \* what that call returned
    \* ---- two.rs, definition ----
    tyT, tyU,         \* the member tables of the vertex types T and U
    interface,        \* interface.elements(), in declared order
    pc,               \* position of definition(): "loop", "ok", "err", "panic", or "idle"
    idx,              \* number of elements the for loop has taken so far
    attribs,          \* the Vec `attribs` built so far
    result,           \* the value definition() returned
    \* ---- two.rs, decode ----
    source,           \* the pair of typed buffers handed to decode
    decoded           \* what decode returned

vars == <<coll, moved, overflow_checks, call, ret,
          tyT, tyU, interface, pc, idx, attribs, result,
          source, decoded>>

collVars   == <<coll, moved, overflow_checks, call, ret>>
defVars    == <<tyT, tyU, interface, pc, idx, attribs, result>>
decodeVars == <<source, decoded>>

----------------------------------------------------------------------------
\* Option<T>
None == <<>>
Some(v) == <<v>>

\* Bounds of the model.
MaxArity == 3       \* longest tuple modelled (the macro generates 2..26)
UsizeBits == 3      \* width of usize in the model
MaxBinding == 2     \* largest binding index queried
MaxElems == 2       \* longest shader interface modelled
MaxLen == 10        \* longest vertex buffer handed to decode

USIZE_MAX == 2^UsizeBits - 1

----------------------------------------------------------------------------
(* The descriptor sets a collection is built from.  A set is an external   *)
(* object implementing DescriptorSet + DescriptorSetDesc; the model draws  *)
(* it from a small catalogue.  "b2" and "i1" are used by two sets.         *)
SetCatalog ==
    { [id |-> "s1", nb |-> 2, bufs |-> <<"b1", "b2">>, imgs |-> <<>>],
      [id |-> "s2", nb |-> 1, bufs |-> <<"b2">>,       imgs |-> <<"i1">>],
      [id |-> "s3", nb |-> 0, bufs |-> <<>>,           imgs |-> <<"i2", "i1">>] }

\* DescriptorSetDesc::num_bindings of one set
SetNumBindings(s) == s.nb

\* DescriptorSetDesc::descriptor(binding) of one set: Some(desc) inside the set, else None
SetDescriptor(s, binding) ==
    IF binding < s.nb THEN Some([set |-> s.id, binding |-> binding]) ELSE None

\* DescriptorSet::buffers_list / images_list of one set
SetBuffersList(s) == s.bufs
SetImagesList(s) == s.imgs

Collections == UNION { [1..n -> SetCatalog] : n \in 0..MaxArity }

\* What a query returns: a value, or a panic; `wrapped` records a usize
\* subtraction that went below zero in a build without overflow checks.
Value(v, w) == [panic |-> FALSE, wrapped |-> w, val |-> v]
Panic == [panic |-> TRUE, wrapped |-> FALSE, val |-> None]

----------------------------------------------------------------------------
\* impl DescriptorSetsCollection for ()
UnitIntoVec == <<>>
UnitNumBindingsInSet(set) == Value(None, FALSE)
UnitDescriptor(set, binding) == Value(None, FALSE)
UnitBuffersList == <<>>
UnitImagesList == <<>>

\* impl<T: DescriptorSet> DescriptorSetsCollection for T
SingleIntoVec(s) == <<s>>
SingleNumBindingsInSet(s, set) ==
    IF set = 0 THEN Value(Some(SetNumBindings(s)), FALSE) ELSE Value(None, FALSE)
SingleDescriptor(s, set, binding) ==
    IF set = 0 THEN Value(SetDescriptor(s, binding), FALSE) ELSE Value(None, FALSE)
SingleBuffersList(s) == SetBuffersList(s)
SingleImagesList(s) == SetImagesList(s)

\* impl_collection!: into_vec of a tuple.  self.1 is the tuple's second
\* element, a single descriptor set, so self.1.into_vec() is the impl above.
VecInsert0(list, x) == <<x>> \o list
TupleIntoVec(t) == VecInsert0(SingleIntoVec(t[2]), t[1])

(* The macro repetition  $( set -= 1; if set == 0 { return ... } )*  over  *)
(* the elements after the first; the result holds the element whose        *)
(* `return` was reached, None when the repetition ran out.  set -= 1 on 0  *)
(* panics with overflow checks and wraps to USIZE_MAX without.             *)
RECURSIVE WalkOthers(_, _, _, _)
WalkOthers(others, set, w, checks) ==
    IF others = <<>> THEN Value(None, w)
    ELSE IF set = 0 /\ checks THEN Panic
    ELSE LET set1 == (set - 1) % (USIZE_MAX + 1)
             w1 == w \/ set = 0
         IN IF set1 = 0 THEN Value(Some(Head(others)), w1)
            ELSE WalkOthers(Tail(others), set1, w1, checks)

\* Variant with a slip: the `if set == 0` test before the repetition is left out.
TupleSelectNoFirstTest(t, set, checks) ==
    WalkOthers(Tail(t), set, FALSE, checks)

\* if set == 0 { return <first> }  then the repetition over the others
TupleSelect(t, set, checks) ==
    IF set = 0 THEN Value(Some(t[1]), FALSE)
    ELSE WalkOthers(Tail(t), set, FALSE, checks)

TupleNumBindingsInSet(t, set, checks) ==
    LET r == TupleSelect(t, set, checks)
    IN IF r.val = None THEN r
       ELSE [r EXCEPT !.val = Some(SetNumBindings(r.val[1]))]

TupleDescriptor(t, set, binding, checks) ==
    LET r == TupleSelect(t, set, checks)
    IN IF r.val = None THEN r
       ELSE [r EXCEPT !.val = SetDescriptor(r.val[1], binding)]

\* Variant with a slip: each list is put in front of the output.
RECURSIVE ExtendAllInFront(_, _)
ExtendAllInFront(output, lists) ==
    IF lists = <<>> THEN output
    ELSE ExtendAllInFront(Head(lists) \o output, Tail(lists))

\* output.extend(first.list()); $( output.extend($others.list()); )*
RECURSIVE ExtendAll(_, _)
ExtendAll(output, lists) ==
    IF lists = <<>> THEN output
    ELSE ExtendAll(output \o Head(lists), Tail(lists))

TupleBuffersList(t) == ExtendAll(<<>>, [i \in 1..Len(t) |-> SetBuffersList(t[i])])
TupleImagesList(t) == ExtendAll(<<>>, [i \in 1..Len(t) |-> SetImagesList(t[i])])

\* Dispatch on the type of `self`: (), a single set, or a tuple.
into_vec(c) ==
    IF Len(c) = 0 THEN UnitIntoVec
    ELSE IF Len(c) = 1 THEN SingleIntoVec(c[1])
    ELSE TupleIntoVec(c)

num_bindings_in_set(c, set, checks) ==
    IF Len(c) = 0 THEN UnitNumBindingsInSet(set)
    ELSE IF Len(c) = 1 THEN SingleNumBindingsInSet(c[1], set)
    ELSE TupleNumBindingsInSet(c, set, checks)

descriptor(c, set, binding, checks) ==
    IF Len(c) = 0 THEN UnitDescriptor(set, binding)
    ELSE IF Len(c) = 1 THEN SingleDescriptor(c[1], set, binding)
    ELSE TupleDescriptor(c, set, binding, checks)

buffers_list(c) ==
    IF Len(c) = 0 THEN UnitBuffersList
    ELSE IF Len(c) = 1 THEN SingleBuffersList(c[1])
    ELSE TupleBuffersList(c)

images_list(c) ==
    IF Len(c) = 0 THEN UnitImagesList
    ELSE IF Len(c) = 1 THEN SingleImagesList(c[1])
    ELSE TupleImagesList(c)

----------------------------------------------------------------------------
\* The calls a user of the trait can make on `self`.
NoCall == [op |-> "none", set |-> 0, binding |-> 0]

IntoVec ==
    /\ ~moved
    /\ call' = [op |-> "into_vec", set |-> 0, binding |-> 0]
    /\ ret' = into_vec(coll)
    /\ moved' = TRUE
    /\ UNCHANGED <<coll, overflow_checks, defVars, decodeVars>>

NumBindingsInSet ==
    /\ ~moved
    /\ \E set \in 0..USIZE_MAX :
          /\ call' = [op |-> "num_bindings_in_set", set |-> set, binding |-> 0]
          /\ ret' = num_bindings_in_set(coll, set, overflow_checks)
    /\ UNCHANGED <<coll, moved, overflow_checks, defVars, decodeVars>>

Descriptor ==
    /\ ~moved
    /\ \E set \in 0..USIZE_MAX, binding \in 0..MaxBinding :
          /\ call' = [op |-> "descriptor", set |-> set, binding |-> binding]
          /\ ret' = descriptor(coll, set, binding, overflow_checks)
    /\ UNCHANGED <<coll, moved, overflow_checks, defVars, decodeVars>>

BuffersList ==
    /\ ~moved
    /\ call' = [op |-> "buffers_list", set |-> 0, binding |-> 0]
    /\ ret' = buffers_list(coll)
    /\ UNCHANGED <<coll, moved, overflow_checks, defVars, decodeVars>>

ImagesList ==
    /\ ~moved
    /\ call' = [op |-> "images_list", set |-> 0, binding |-> 0]
    /\ ret' = images_list(coll)
    /\ UNCHANGED <<coll, moved, overflow_checks, defVars, decodeVars>>

----------------------------------------------------------------------------
(* pipeline/vertex/two.rs.  The vertex types T and U, the shader interface *)
(* and the formats are inputs; the model draws them from small sets.       *)
Names == {"position", "color"}

\* VertexMemberInfo values a vertex type may declare for a name
MemberInfos ==
    { [ty |-> "F32", array_size |-> 1, offset |-> 0],
      [ty |-> "F32", array_size |-> 2, offset |-> 8],
      [ty |-> "U8",  array_size |-> 4, offset |-> 4] }

\* <V as Vertex>::member: name -> Option<VertexMemberInfo>
MemberTables == [Names -> {None} \cup {Some(i) : i \in MemberInfos}]

Formats == {"R32Sfloat", "R32G32Sfloat", "BC1_RGBUnormBlock"}

\* e.location, a Range<u32> with start < end
Locations == { [start |-> 0, end |-> 1], [start |-> 2, end |-> 4] }

\* ShaderInterfaceDefEntry: name is an Option
Elements ==
    [name : {None} \cup {Some(n) : n \in Names}, location : Locations, format : Formats]

Interfaces == UNION { [1..n -> Elements] : n \in 0..MaxElems }

\* Format::size(): bytes of one location, None for a block-compressed format
FormatSize(f) ==
    CASE f = "R32Sfloat" -> Some(4)
      [] f = "R32G32Sfloat" -> Some(8)
      [] OTHER -> None

\* bytes of one component of a VertexMemberTy
TySize(ty) == CASE ty = "F32" -> 4 [] OTHER -> 1

\* VertexMemberTy::matches(array_size, format, num_locs)
Matches(ty, array_size, format, num_locs) ==
    IF FormatSize(format) = None THEN FALSE
    ELSE array_size * TySize(ty) = FormatSize(format)[1] * num_locs

\* mem::size_of::<V>(): the bytes of one vertex record
MaxOf(S) == IF S = {} THEN 0 ELSE LET x == CHOOSE x \in S : \A y \in S : y <= x IN x
SizeOf(table) ==
    MaxOf({ table[n][1].offset + table[n][1].array_size * TySize(table[n][1].ty) :
            n \in {m \in Names : table[m] /= None} })

\* Variant with a slip: the `else if` on U is left out.
LookupOnlyT(name, T, U) ==
    IF T[name] /= None THEN Some([infos |-> T[name][1], buf_offset |-> 0])
    ELSE None

\* Variant with a slip: U is tried before T.
LookupUFirst(name, T, U) ==
    IF U[name] /= None THEN Some([infos |-> U[name][1], buf_offset |-> 1])
    ELSE IF T[name] /= None THEN Some([infos |-> T[name][1], buf_offset |-> 0])
    ELSE None

\* two.rs 52-60: T first, then U; the chosen infos and its buffer index
Lookup(name, T, U) ==
    IF T[name] /= None THEN Some([infos |-> T[name][1], buf_offset |-> 0])
    ELSE IF U[name] /= None THEN Some([infos |-> U[name][1], buf_offset |-> 1])
    ELSE None

\* e.location.end - e.location.start
NumLocs(e) == e.location.end - e.location.start

\* Variant with a slip: the location count is taken to be location.end.
MismatchCountIsEnd(infos, e) ==
    ~Matches(infos.ty, infos.array_size, e.format, e.location.end)

\* two.rs 62-71: the condition of the FormatMismatch return
Mismatch(infos, e) == ~Matches(infos.ty, infos.array_size, e.format, NumLocs(e))

\* Variant with a slip: `offset += ...` is left out.
RECURSIVE ExpandSameOffset(_, _, _, _, _)
ExpandSameOffset(out, loc, offset, buf_offset, e) ==
    IF loc >= e.location.end THEN Some(out)
    ELSE IF FormatSize(e.format) = None THEN None
    ELSE ExpandSameOffset(Append(out, [location |-> loc, buffer |-> buf_offset,
                                       offset |-> offset, format |-> e.format]),
                          loc + 1, offset, buf_offset, e)

\* two.rs 73-82: one push per location of the range, offset advancing by
\* format.size().unwrap(); <<"panic">> when the unwrap fails
RECURSIVE Expand(_, _, _, _, _)
Expand(out, loc, offset, buf_offset, e) ==
    IF loc >= e.location.end THEN Some(out)
    ELSE IF FormatSize(e.format) = None THEN None
    ELSE Expand(Append(out, [location |-> loc, buffer |-> buf_offset,
                             offset |-> offset, format |-> e.format]),
                loc + 1, offset + FormatSize(e.format)[1], buf_offset, e)

MissingAttribute(name) == [tag |-> "MissingAttribute", attribute |-> name]
FormatMismatch(name, e, infos) ==
    [tag |-> "FormatMismatch", attribute |-> name,
     shader |-> <<e.format, NumLocs(e)>>,
     definition |-> <<infos.ty, infos.array_size>>]

\* Variant with a slip: an element without a name is reported as a missing
\* attribute instead of being unwrapped.
LoopBodyUnnamedIsMissing(e, out, T, U) ==
    LET name == IF e.name = None THEN "" ELSE e.name[1]
        found == IF e.name = None THEN None ELSE Lookup(name, T, U)
    IN IF found = None
       THEN [to |-> "err", attribs |-> out, err |-> Some(MissingAttribute(name))]
       ELSE LET infos == found[1].infos
                pushed == Expand(out, e.location.start, infos.offset,
                                 found[1].buf_offset, e)
            IN IF Mismatch(infos, e)
               THEN [to |-> "err", attribs |-> out,
                     err |-> Some(FormatMismatch(name, e, infos))]
               ELSE IF pushed = None
               THEN [to |-> "panic", attribs |-> out, err |-> None]
               ELSE [to |-> "loop", attribs |-> pushed[1], err |-> None]

\* two.rs 49-83: the body of the for loop on one element
LoopBody(e, out, T, U) ==
    IF e.name = None THEN [to |-> "panic", attribs |-> out, err |-> None]
    ELSE LET name == e.name[1]
             found == Lookup(name, T, U)
         IN IF found = None
            THEN [to |-> "err", attribs |-> out, err |-> Some(MissingAttribute(name))]
            ELSE LET infos == found[1].infos
                     pushed == Expand(out, e.location.start, infos.offset,
                                      found[1].buf_offset, e)
                 IN IF Mismatch(infos, e)
                    THEN [to |-> "err", attribs |-> out,
                          err |-> Some(FormatMismatch(name, e, infos))]
                    ELSE IF pushed = None
                    THEN [to |-> "panic", attribs |-> out, err |-> None]
                    ELSE [to |-> "loop", attribs |-> pushed[1], err |-> None]

\* two.rs 87-90
Buffers(T, U) ==
    << [binding |-> 0, stride |-> SizeOf(T), rate |-> "Vertex"],
       [binding |-> 1, stride |-> SizeOf(U), rate |-> "Vertex"] >>

NoResult == [tag |-> "none"]

\* Variant with a slip: an error is recorded but the loop goes on.
IterateGoesOn ==
    /\ pc = "loop"
    /\ idx < Len(interface)
    /\ LET b == LoopBody(interface[idx + 1], attribs, tyT, tyU)
       IN /\ pc' = IF b.to = "err" THEN "loop" ELSE b.to
          /\ attribs' = b.attribs
          /\ result' = CASE b.to = "err" -> b.err[1]
                         [] b.to = "panic" -> [tag |-> "panic"]
                         [] OTHER -> result
    /\ idx' = idx + 1
    /\ UNCHANGED <<tyT, tyU, interface, collVars, decodeVars>>

\* one turn of `for e in interface.elements()`
Iterate ==
    /\ pc = "loop"
    /\ idx < Len(interface)
    /\ LET b == LoopBody(interface[idx + 1], attribs, tyT, tyU)
       IN /\ pc' = b.to
          /\ attribs' = b.attribs
          /\ result' = CASE b.to = "err" -> b.err[1]
                         [] b.to = "panic" -> [tag |-> "panic"]
                         [] OTHER -> result
    /\ idx' = idx + 1
    /\ UNCHANGED <<tyT, tyU, interface, collVars, decodeVars>>

\* the loop is over: Ok((buffers, attrib))
Finish ==
    /\ pc = "loop"
    /\ idx = Len(interface)
    /\ pc' = "ok"
    /\ result' = [tag |-> "Ok", buffers |-> Buffers(tyT, tyU), attribs |-> attribs]
    /\ UNCHANGED <<tyT, tyU, interface, idx, attribs, collVars, decodeVars>>

----------------------------------------------------------------------------
\* Variant with a slip: max() instead of min().
Max2(a, b) == IF a >= b THEN a ELSE b

\* two.rs 114-121: decode on a pair of typed buffers
Min2(a, b) == IF a <= b THEN a ELSE b

Decode(src) ==
    [buffers |-> <<src[1], src[2]>>,
     vertices |-> Min2(src[1].len, src[2].len),
     instances |-> 1]

Sources ==
    { <<[id |-> "Bt", len |-> a], [id |-> "Bu", len |-> b]>> : a, b \in 0..MaxLen }

NotDecoded == [buffers |-> <<>>, vertices |-> 0, instances |-> 0]

DoDecode ==
    /\ decoded = NotDecoded
    /\ decoded' = Decode(source)
    /\ UNCHANGED <<source, collVars, defVars>>

----------------------------------------------------------------------------
\* The values of a part of the program that a specification does not run.
IdleColl ==
    /\ coll = <<>> /\ moved = TRUE /\ overflow_checks = TRUE
    /\ call = NoCall /\ ret = <<>>
IdleDef ==
    /\ tyT = [n \in Names |-> None] /\ tyU = [n \in Names |-> None]
    /\ interface = <<>> /\ pc = "idle" /\ idx = 0 /\ attribs = <<>>
    /\ result = NoResult
IdleDecode ==
    /\ source = <<[id |-> "Bt", len |-> 0], [id |-> "Bu", len |-> 0]>>
    /\ decoded = Decode(source)

InitColl ==
    /\ coll \in Collections
    /\ moved = FALSE
    /\ overflow_checks \in BOOLEAN
    /\ call = NoCall
    /\ ret = <<>>
    /\ IdleDef /\ IdleDecode

InitDef ==
    /\ tyT \in MemberTables
    /\ tyU \in MemberTables
    /\ interface \in Interfaces
    /\ pc = "loop"
    /\ idx = 0
    /\ attribs = <<>>
    /\ result = NoResult
    /\ IdleColl /\ IdleDecode

InitDecode ==
    /\ source \in Sources
    /\ decoded = NotDecoded
    /\ IdleColl /\ IdleDef

NextColl == IntoVec \/ NumBindingsInSet \/ Descriptor \/ BuffersList \/ ImagesList
NextDef == Iterate \/ Finish
NextDecode == DoDecode

SpecColl == InitColl /\ [][NextColl]_vars
SpecDef == InitDef /\ [][NextDef]_vars
SpecDecode == InitDecode /\ [][NextDecode]_vars

----------------------------------------------------------------------------
(* Properties.  Helpers used only to state them.                           *)
RECURSIVE SumTo(_, _)
\* lens[1] + ... + lens[k]
SumTo(lens, k) == IF k = 0 THEN 0 ELSE lens[k] + SumTo(lens, k - 1)

\* `out` is the concatenation of the sequences lists[1], lists[2], ...
IsConcatenation(out, lists) ==
    LET lens == [k \in 1..Len(lists) |-> Len(lists[k])]
    IN /\ Len(out) = SumTo(lens, Len(lists))
       /\ \A k \in 1..Len(lists) : \A j \in 1..Len(lists[k]) :
             out[SumTo(lens, k - 1) + j] = lists[k][j]

\* C1: into_vec of an N-tuple, N >= 2, returns exactly N handles, the handle
\* at position i being element i of the tuple.
C1_IntoVecYieldsEveryElement ==
    (call.op = "into_vec" /\ Len(coll) >= 2) =>
        /\ Len(ret) = Len(coll)
        /\ \A i \in 1..Len(coll) : ret[i] = coll[i]

\* C2: num_bindings_in_set(i) and descriptor(i, b) answer for element i of
\* the collection when i < N and None when i >= N (always None on (), only
\* index 0 on a single set); no index panics or takes the running index
\* below zero.
C2_SetIndexResolution ==
    call.op \in {"num_bindings_in_set", "descriptor"} =>
        /\ ~ret.panic
        /\ ~ret.wrapped
        /\ ret.val = IF call.set >= Len(coll) THEN None
                     ELSE IF call.op = "num_bindings_in_set"
                          THEN Some(coll[call.set + 1].nb)
                          ELSE SetDescriptor(coll[call.set + 1], call.binding)

C2_Witness ==
    /\ call.op = "descriptor" /\ ~overflow_checks
    /\ Len(coll) = 3 /\ call.set = 2 /\ ret.val /= None
    /\ coll[1] /= coll[3] /\ coll[2] /= coll[3]

\* C3: buffers_list (images_list) is the concatenation, in tuple order, of
\* each element's own buffers_list (images_list); the empty collection yields
\* the empty sequence.
C3_ResourceListsConcatenate ==
    /\ call.op = "buffers_list" =>
          IsConcatenation(ret, [k \in 1..Len(coll) |-> coll[k].bufs])
    /\ call.op = "images_list" =>
          IsConcatenation(ret, [k \in 1..Len(coll) |-> coll[k].imgs])
    /\ (call.op \in {"buffers_list", "images_list"} /\ Len(coll) = 0) => ret = <<>>

C3_Witness ==
    /\ call.op = "buffers_list" /\ Len(coll) = 3
    /\ coll[1].id = "s2" /\ coll[2].id = "s3" /\ coll[3].id = "s1"
    /\ ret = <<"b2", "b1", "b2">>

----------------------------------------------------------------------------
\* The element the loop took last (idx counts the elements taken).
Reached == idx >= 1
Cur == interface[idx]
Declares(table, name) == table[name] /= None

\* C4: definition fails with MissingAttribute(name) whenever it reaches an
\* element whose name neither T nor U declares, and never returns
\* MissingAttribute for a name that T or U declares.
C4_MissingAttribute ==
    /\ (Reached /\ Cur.name /= None
          /\ ~Declares(tyT, Cur.name[1]) /\ ~Declares(tyU, Cur.name[1])) =>
            /\ pc = "err"
            /\ result = [tag |-> "MissingAttribute", attribute |-> Cur.name[1]]
    /\ result.tag = "MissingAttribute" =>
            /\ ~Declares(tyT, result.attribute)
            /\ ~Declares(tyU, result.attribute)

C4_Witness ==
    /\ pc = "err" /\ idx = 2 /\ result.tag = "MissingAttribute"
    /\ result.attribute = "color" /\ Declares(tyU, "position")

\* The member the name lookup selects: T's when T declares the name, else U's.
Selected(name) == IF Declares(tyT, name) THEN tyT[name][1] ELSE tyU[name][1]

\* C5: definition fails with FormatMismatch exactly when the selected member
\* does not match the element's format and location count; the error carries
\* the name, (format, location count) and the selected member's (type, array
\* size).  A matching member of the same name in U does not rescue it.
C5_FormatMismatch ==
    (Reached /\ Cur.name /= None
       /\ (Declares(tyT, Cur.name[1]) \/ Declares(tyU, Cur.name[1]))) =>
        LET sel == Selected(Cur.name[1])
            count == Cur.location.end - Cur.location.start
        IN IF Matches(sel.ty, sel.array_size, Cur.format, count)
           THEN result.tag /= "FormatMismatch"
           ELSE /\ pc = "err"
                /\ result = [tag |-> "FormatMismatch", attribute |-> Cur.name[1],
                             shader |-> <<Cur.format, count>>,
                             definition |-> <<sel.ty, sel.array_size>>]

C5_Witness ==
    /\ pc = "err" /\ result.tag = "FormatMismatch" /\ idx = 2
    /\ Cur.location = [start |-> 2, end |-> 4]
    /\ Declares(tyU, Cur.name[1])
    /\ Matches(tyU[Cur.name[1]][1].ty, tyU[Cur.name[1]][1].array_size,
               Cur.format, 2)

\* Position in attribs before the first binding of element k.
AttribBase(k) ==
    SumTo([m \in 1..Len(interface) |->
              interface[m].location.end - interface[m].location.start], k - 1)

\* C6: when T and U both declare an element's name, every binding of that
\* element has buffer index 0 and starts from T's member offset; buffer index
\* 1 is given only when T does not declare the name and U does.
C6_FirstMatchWins ==
    pc \in {"loop", "ok"} =>
        \A k \in 1..idx :
            LET e == interface[k]
                n == e.name[1]
                count == e.location.end - e.location.start
            IN /\ Len(attribs) >= AttribBase(k) + count
               /\ Declares(tyT, n) =>
                     /\ \A j \in 1..count : attribs[AttribBase(k) + j].buffer = 0
                     /\ attribs[AttribBase(k) + 1].offset = tyT[n][1].offset
               /\ \A j \in 1..count :
                     attribs[AttribBase(k) + j].buffer = 1 =>
                         ~Declares(tyT, n) /\ Declares(tyU, n)

C6_Witness ==
    /\ pc = "ok" /\ Len(interface) = 2
    /\ \E k \in 1..2 :
          LET n == interface[k].name[1]
          IN /\ Declares(tyT, n) /\ Declares(tyU, n) /\ tyT[n] /= tyU[n]
             /\ attribs[AttribBase(k) + 1].buffer = 0
    /\ \E j \in 1..Len(attribs) : attribs[j].buffer = 1

\* C7: on success the attribute list holds, for each element in declared
\* order, one binding per location of [start, end) in ascending order, with
\* offset = member offset + (loc - start) * (bytes per location of the
\* format) and the element's format; its length is the sum of the location
\* counts.
C7_OneBindingPerLocation ==
    pc = "ok" =>
        /\ result.tag = "Ok"
        /\ Len(result.attribs) = AttribBase(Len(interface) + 1)
        /\ \A k \in 1..Len(interface) :
              LET e == interface[k]
                  sel == Selected(e.name[1])
              IN \A loc \in e.location.start..(e.location.end - 1) :
                    LET a == result.attribs[AttribBase(k) + (loc - e.location.start) + 1]
                    IN /\ a.location = loc
                       /\ a.format = e.format
                       /\ a.offset = sel.offset
                             + (loc - e.location.start) * FormatSize(e.format)[1]

C7_Witness ==
    /\ pc = "ok" /\ Len(interface) = 2 /\ Len(result.attribs) = 3
    /\ interface[1].location = [start |-> 2, end |-> 4]
    /\ result.attribs[2].location = 3 /\ result.attribs[2].offset = 12

----------------------------------------------------------------------------
\* C8: decode on (Bt, Bu) returns vertex_count = min(len Bt, len Bu),
\* instance_count = 1, and the two buffers in order.
C8_DecodeMinLen ==
    decoded /= NotDecoded =>
        /\ decoded.vertices \in {source[1].len, source[2].len}
        /\ decoded.vertices <= source[1].len
        /\ decoded.vertices <= source[2].len
        /\ decoded.instances = 1
        /\ Len(decoded.buffers) = 2
        /\ decoded.buffers[1].id = "Bt"
        /\ decoded.buffers[2].id = "Bu"

C8_Witness ==
    /\ source[1].len = 10 /\ source[2].len = 7
    /\ decoded.vertices = 7 /\ decoded.instances = 1

----------------------------------------------------------------------------
\* Element k fails its name lookup, or the format validation of the member
\* the lookup selected.
LookupFails(k) ==
    LET n == interface[k].name[1] IN ~Declares(tyT, n) /\ ~Declares(tyU, n)
ValidationFails(k) ==
    LET e == interface[k]
        sel == Selected(e.name[1])
    IN ~Matches(sel.ty, sel.array_size, e.format, e.location.end - e.location.start)
ErrorOf(k) ==
    LET e == interface[k]
        sel == Selected(e.name[1])
    IN IF LookupFails(k)
       THEN [tag |-> "MissingAttribute", attribute |-> e.name[1]]
       ELSE [tag |-> "FormatMismatch", attribute |-> e.name[1],
             shader |-> <<e.format, e.location.end - e.location.start>>,
             definition |-> <<sel.ty, sel.array_size>>]
IsError(r) == r.tag \in {"MissingAttribute", "FormatMismatch"}

\* A named element that fails stops the loop there with its own error, the
\* lookup error before the validation error; an error carries neither
\* buffer bindings nor attribute bindings.
C9_FirstErrorReturned ==
    /\ \A k \in 1..idx :
          (interface[k].name /= None /\ (LookupFails(k) \/ ValidationFails(k))) =>
              /\ pc = "err"
              /\ idx = k
              /\ result = ErrorOf(k)
    /\ pc = "err" =>
          /\ IsError(result)
          /\ DOMAIN result \cap {"buffers", "attribs"} = {}
    /\ IsError(result) => pc = "err"

\* Once an error is the result, no later step examines an element or changes
\* the result.
C9_ErrorStays ==
    IsError(result) => (result' = result /\ idx' = idx /\ pc' = pc)

\* C9: the elements are processed in declared order and a failure is
\* terminal: the result is the error of the first element that fails its
\* lookup or its validation, and stays so.
C9_FailureIsTerminal == []C9_FirstErrorReturned /\ [][C9_ErrorStays]_vars

C9_Witness ==
    /\ pc = "err" /\ idx = 1 /\ Len(interface) = 2
    /\ result.tag = "FormatMismatch"
    /\ interface[2].name /= None /\ LookupFails(2)

\* C10: reaching an element without a name aborts definition (the unwrap
\* panics): no error value and no success is returned; the error of an
\* earlier element is returned as an error value, that element being reached
\* first.
C10_UnnamedElementPanics ==
    /\ (Reached /\ Cur.name = None) => (pc = "panic" /\ result.tag = "panic")
    /\ pc \in {"ok", "err"} => \A k \in 1..idx : interface[k].name /= None
    /\ \A k \in 1..Len(interface) :
          (/\ interface[k].name = None
           /\ \E j \in 1..(k - 1) :
                /\ \A m \in 1..j : interface[m].name /= None
                /\ LookupFails(j) \/ ValidationFails(j)
           /\ pc \notin {"loop"})
          => (pc = "err" /\ IsError(result) /\ idx < k)

C10_Witness ==
    /\ pc = "panic" /\ idx = 2 /\ Len(interface) = 2
    /\ interface[2].name = None /\ Len(attribs) = 2

C10_WitnessEarlierError ==
    /\ pc = "err" /\ idx = 1 /\ Len(interface) = 2 /\ interface[2].name = None

====
